---- MODULE Spec2Model ----
(***************************************************************************)
(* A model of proxy.go: the request handler (proxyHandler), the            *)
(* request/response schema translation, the streaming relay                *)
(* (handleStreamingResponse) with its heartbeat goroutine, readResponse    *)
(* with the buffer pools, and convertMessages.                             *)
(*                                                                         *)
(* Strings that the code inspects by prefix are sequences of tokens        *)
(* ("/v1/chat" is <<"/v1/", "chat">>); JSON objects are functions from     *)
(* the keys that are present to their values, so that an omitted key and   *)
(* a zero value differ; Go structs are records with every field.           *)
(***************************************************************************)
EXTENDS Integers, Sequences, FiniteSets, TLC

VARIABLES
    activeConfig,   \* the profile init() selected (read-only afterwards)
    pc,             \* where proxyHandler is for the request
    req,            \* the inbound request: method, Authorization, path
    body,           \* the inbound body as io.ReadAll returned it
    upstreamCalls,  \* the upstream requests httpClient.Do was given
    reply,          \* what httpClient.Do returned
    clientResp,     \* the statuses and the body written to the client
    streamStarted,  \* handleStreamingResponse was entered
    upstream,       \* streaming: the upstream body: "open", "eof", "error"
    inbox,          \* streaming: complete lines delivered and not yet read
    tail,           \* streaming: bytes after the last newline, at the end
    sent,           \* streaming: every line upstream delivered (history)
    relayPc,        \* streaming: the relay loop's position
    cur,            \* streaming: the line the relay loop holds
    hbPc,           \* streaming: the heartbeat goroutine's position
    tick,           \* streaming: ticker.C holds a tick
    beats,          \* streaming: ticks delivered so far
    ctxDone,        \* streaming: ctx.Done() is closed
    connBroken,     \* streaming: the client connection is gone
    out,            \* streaming: the writes the client connection received
    pool,           \* readResponse: the buffers lying in the two sync.Pools
    buffers,        \* readResponse: every bytes.Buffer: capacity, array, length
    arrays,         \* readResponse: the contents of every backing array
    readers,        \* readResponse: the concurrent non-streaming requests
    callerMessages, \* convertMessages: the caller's list as it is now
    given,          \* convertMessages: the list as it was at the call
    converted,      \* convertMessages: the list returned
    convPc          \* convertMessages: "call" or "returned"

vars == <<activeConfig, pc, req, body, upstreamCalls, reply, clientResp,
          streamStarted, upstream, inbox, tail, sent, relayPc, cur, hbPc,
          tick, beats, ctxDone, connBroken, out, pool, buffers, arrays, readers,
          callerMessages, given, converted, convPc>>

handlerVars == <<activeConfig, pc, req, body, upstreamCalls, reply,
                 clientResp, streamStarted>>

streamVars == <<upstream, inbox, tail, sent, relayPc, cur, hbPc, tick,
                beats, ctxDone, connBroken, out>>

poolVars == <<pool, buffers, arrays, readers>>

convVars == <<callerMessages, given, converted, convPc>>

(***************************************************************************)
(* Bounds of the model.                                                    *)
(***************************************************************************)
MaxChoices == 2
MaxToolCalls == 2
MaxLines == 2
MaxBeats == 1
NumReaders == 2
Chunks == 2
MaxMessages == 2

(***************************************************************************)
(* Constants and configuration.                                            *)
(***************************************************************************)
deepseekEndpoint == "https://api.deepseek.com"
deepseekBetaEndpoint == "https://api.deepseek.com/beta"
openRouterEndpoint == "https://openrouter.ai/api/v1"
deepseekOpenRouterModel == "deepseek/deepseek-chat"
deepseekChatModel == "deepseek-chat"
deepseekCoderModel == "deepseek-coder"
gpt4oModel == "gpt-4o"

\* The two credentials of the environment.
deepseekAPIKey == "DEEPSEEK_API_KEY"
openRouterAPIKey == "OPENROUTER_API_KEY"

\* The profiles init() can select (-model coder | chat | openrouter).
Profiles ==
    { [endpoint |-> deepseekBetaEndpoint, model |-> deepseekCoderModel,
       apiKey |-> deepseekAPIKey],
      [endpoint |-> deepseekEndpoint, model |-> deepseekChatModel,
       apiKey |-> deepseekAPIKey],
      [endpoint |-> openRouterEndpoint, model |-> deepseekOpenRouterModel,
       apiKey |-> openRouterAPIKey] }

StatusOK == 200
StatusBadRequest == 400
StatusUnauthorized == 401
StatusNotFound == 404
StatusInternalServerError == 500
StatusBadGateway == 502

(***************************************************************************)
(* Helpers on sequences, strings and JSON objects.                         *)
(***************************************************************************)
Range(s) == { s[i] : i \in DOMAIN s }

SeqsUpTo(S, n) == UNION { [1..k -> S] : k \in 0..n }

\* strings.HasPrefix / strings.TrimPrefix on a token sequence.
HasPrefix(s, p) == Len(s) >= 1 /\ s[1] = p
TrimPrefix(s, p) == IF HasPrefix(s, p) THEN Tail(s) ELSE s

\* The JSON object with no key.
EmptyObj == [k \in {} |-> 0]

\* A key that is present only when `present`.
Opt(present, k, v) == IF present THEN k :> v ELSE EmptyObj

\* The value under k, or the Go zero value when the key is absent
\* (json.Unmarshal leaves the field alone).
Field(j, k, zero) == IF k \in DOMAIN j THEN j[k] ELSE zero

(***************************************************************************)
(* The data model: Go structs and their JSON forms.                        *)
(***************************************************************************)

\* An interface{} value json.Unmarshal produced: nil, a string or an object.
NilValue == [kind |-> "nil"]
StringValue(s) == [kind |-> "string", str |-> s]
ObjectValue(o) == [kind |-> "object", obj |-> o]

\* type ToolCall: no field is omitempty, so the JSON form carries every key.
UnmarshalToolCall(j) ==
    [id |-> Field(j, "id", ""),
     type |-> Field(j, "type", ""),
     function |-> [name |-> Field(Field(j, "function", EmptyObj), "name", ""),
                   arguments |-> Field(Field(j, "function", EmptyObj),
                                       "arguments", "")]]

MarshalToolCall(tc) ==
    [id |-> tc.id, type |-> tc.type,
     function |-> [name |-> tc.function.name,
                   arguments |-> tc.function.arguments]]

\* type Message: tool_calls, tool_call_id and name are omitempty.
UnmarshalMessage(j) ==
    [Role |-> Field(j, "role", ""),
     Content |-> Field(j, "content", ""),
     ToolCalls |-> [i \in DOMAIN Field(j, "tool_calls", <<>>) |->
                       UnmarshalToolCall(j["tool_calls"][i])],
     ToolCallID |-> Field(j, "tool_call_id", ""),
     Name |-> Field(j, "name", "")]

MarshalMessage(m) ==
    ("role" :> m.Role) @@ ("content" :> m.Content)
    @@ Opt(Len(m.ToolCalls) > 0, "tool_calls",
           [i \in DOMAIN m.ToolCalls |-> MarshalToolCall(m.ToolCalls[i])])
    @@ Opt(m.ToolCallID # "", "tool_call_id", m.ToolCallID)
    @@ Opt(m.Name # "", "name", m.Name)

\* type Function and type Tool: no omitempty.
UnmarshalFunction(j) ==
    [Name |-> Field(j, "name", ""),
     Description |-> Field(j, "description", ""),
     Parameters |-> Field(j, "parameters", "null")]

MarshalFunction(f) ==
    [name |-> f.Name, description |-> f.Description,
     parameters |-> f.Parameters]

UnmarshalTool(j) ==
    [Type |-> Field(j, "type", ""),
     Function |-> UnmarshalFunction(Field(j, "function", EmptyObj))]

MarshalTool(t) == [type |-> t.Type, function |-> MarshalFunction(t.Function)]

\* type ChatRequest: Temperature and MaxTokens are pointers, modelled as a
\* sequence of length 0 (nil) or 1.
UnmarshalChatRequest(j) ==
    [Model |-> Field(j, "model", ""),
     Messages |-> [i \in DOMAIN Field(j, "messages", <<>>) |->
                      UnmarshalMessage(j["messages"][i])],
     Stream |-> Field(j, "stream", FALSE),
     Functions |-> [i \in DOMAIN Field(j, "functions", <<>>) |->
                       UnmarshalFunction(j["functions"][i])],
     Tools |-> [i \in DOMAIN Field(j, "tools", <<>>) |->
                   UnmarshalTool(j["tools"][i])],
     ToolChoice |-> Field(j, "tool_choice", NilValue),
     Temperature |-> IF "temperature" \in DOMAIN j
                     THEN <<j["temperature"]>> ELSE <<>>,
     MaxTokens |-> IF "max_tokens" \in DOMAIN j
                   THEN <<j["max_tokens"]>> ELSE <<>>]

\* type DeepSeekRequest: temperature, max_tokens, tools and tool_choice are
\* omitempty on plain (non-pointer) fields: the zero value is left out.
MarshalDeepSeekRequest(ds) ==
    ("model" :> ds.Model)
    @@ ("messages" :> [i \in DOMAIN ds.Messages |->
                          MarshalMessage(ds.Messages[i])])
    @@ ("stream" :> ds.Stream)
    @@ Opt(ds.Temperature # 0, "temperature", ds.Temperature)
    @@ Opt(ds.MaxTokens # 0, "max_tokens", ds.MaxTokens)
    @@ Opt(Len(ds.Tools) > 0, "tools",
           [i \in DOMAIN ds.Tools |-> MarshalTool(ds.Tools[i])])
    @@ Opt(ds.ToolChoice # "", "tool_choice", ds.ToolChoice)

(***************************************************************************)
(* Schema translation, request direction.                                  *)
(***************************************************************************)
\* A mutant of convertToolChoice: every string is passed on.
convertToolChoiceAnyString(choice) ==
    IF choice.kind = "string" THEN choice.str
    ELSE IF choice.kind = "object"
            /\ Field(choice.obj, "type", "") = "function"
         THEN "auto"
    ELSE ""

convertToolChoice(choice) ==
    IF choice.kind = "nil" THEN ""
    ELSE IF choice.kind = "string" /\ choice.str \in {"auto", "none"}
         THEN choice.str
    ELSE IF choice.kind = "object"
            /\ Field(choice.obj, "type", "") = "function"
         THEN "auto"
    ELSE ""

\* A mutant of convertMessage: a function message also loses its name.
convertMessageUnnamed(msg) ==
    IF msg.Role = "function"
    THEN [msg EXCEPT !.Role = "tool", !.Name = ""]
    ELSE IF msg.Role = "assistant" /\ Len(msg.ToolCalls) > 0
    THEN [msg EXCEPT !.ToolCalls =
             [j \in DOMAIN msg.ToolCalls |->
                 [msg.ToolCalls[j] EXCEPT !.type = "function"]]]
    ELSE msg

\* The loop body of convertMessages for one message.
convertMessage(msg) ==
    LET withCalls ==
            IF msg.Role = "assistant" /\ Len(msg.ToolCalls) > 0
            THEN [msg EXCEPT !.ToolCalls =
                     [j \in DOMAIN msg.ToolCalls |->
                         [id |-> msg.ToolCalls[j].id,
                          type |-> "function",
                          function |-> msg.ToolCalls[j].function]]]
            ELSE msg
    IN  IF msg.Role = "function"
        THEN [withCalls EXCEPT !.Role = "tool"]
        ELSE withCalls

convertMessages(messages) ==
    [i \in DOMAIN messages |-> convertMessage(messages[i])]

\* A mutant of ModelSupported: the second name the models list advertises
\* is accepted too.
ModelSupportedAdvertised(model) == model \in {gpt4oModel, deepseekChatModel}

\* proxyHandler, the model check.
ModelSupported(model) == model = gpt4oModel

\* A mutant of UpstreamModel: the client's model name is passed on.
UpstreamModelOfClient(cfg, chatReq) == chatReq.Model

\* proxyHandler: the model of the upstream request.
UpstreamModel(cfg, chatReq) == cfg.model

\* A mutant of FunctionsToTools: the lifted entries carry no type.
FunctionsToToolsUntyped(functions) ==
    [i \in DOMAIN functions |-> [Type |-> "", Function |-> functions[i]]]

\* proxyHandler: functions lifted into tools.
FunctionsToTools(functions) ==
    [i \in DOMAIN functions |->
        [Type |-> "function", Function |-> functions[i]]]

\* proxyHandler: the DeepSeekRequest built from the parsed ChatRequest.
BuildDeepSeekRequest(cfg, chatReq) ==
    LET hasTools == Len(chatReq.Tools) > 0
        hasFunctions == Len(chatReq.Functions) > 0
    IN  [Model |-> UpstreamModel(cfg, chatReq),
         Messages |-> convertMessages(chatReq.Messages),
         Stream |-> chatReq.Stream,
         Temperature |-> IF chatReq.Temperature # <<>>
                         THEN chatReq.Temperature[1] ELSE 0,
         MaxTokens |-> IF chatReq.MaxTokens # <<>>
                       THEN chatReq.MaxTokens[1] ELSE 0,
         Tools |-> IF hasTools THEN chatReq.Tools
                   ELSE IF hasFunctions
                        THEN FunctionsToTools(chatReq.Functions)
                        ELSE <<>>,
         ToolChoice |-> IF hasTools \/ hasFunctions
                        THEN convertToolChoice(chatReq.ToolChoice)
                        ELSE ""]


(***************************************************************************)
(* Schema translation, response direction (handleRegularResponse).         *)
(***************************************************************************)

\* The anonymous struct of a choice: index, message, finish_reason.
UnmarshalChoice(j) ==
    [Index |-> Field(j, "index", 0),
     Message |-> UnmarshalMessage(Field(j, "message", EmptyObj)),
     FinishReason |-> Field(j, "finish_reason", "")]

MarshalChoice(c) ==
    [index |-> c.Index, message |-> MarshalMessage(c.Message),
     finish_reason |-> c.FinishReason]

\* The anonymous struct deepseekResp is parsed into.
UnmarshalResponse(j) ==
    [ID |-> Field(j, "id", ""),
     Object |-> Field(j, "object", ""),
     Created |-> Field(j, "created", 0),
     Model |-> Field(j, "model", ""),
     Choices |-> [i \in DOMAIN Field(j, "choices", <<>>) |->
                     UnmarshalChoice(j["choices"][i])],
     Usage |-> Field(j, "usage", 0)]

MarshalResponse(r) ==
    [id |-> r.ID, object |-> r.Object, created |-> r.Created,
     model |-> r.Model,
     choices |-> [i \in DOMAIN r.Choices |-> MarshalChoice(r.Choices[i])],
     usage |-> r.Usage]

RECURSIVE AppendNamed(_, _)
\* The inner loop over choice.Message.ToolCalls: a tool call with an empty
\* function name is skipped, every other one is appended to acc.
AppendNamed(acc, calls) ==
    IF calls = <<>> THEN acc
    ELSE IF Head(calls).function.name = ""
         THEN AppendNamed(acc, Tail(calls))
         ELSE AppendNamed(Append(acc, Head(calls)), Tail(calls))

\* The outer loop body: the emitted choice starts as a copy of the upstream
\* choice, its Message (tool calls included) copied with it, and the inner
\* loop appends to that copy's ToolCalls.
TranslateChoice(choice) ==
    [Index |-> choice.Index,
     Message |-> [choice.Message EXCEPT !.ToolCalls =
                     AppendNamed(choice.Message.ToolCalls,
                                 choice.Message.ToolCalls)],
     FinishReason |-> choice.FinishReason]

\* A mutant of ClientFacingModel: upstream's model name is passed on.
ClientFacingModelOfUpstream(deepseekResp) == deepseekResp.Model

\* The model field of the client-facing reply.
ClientFacingModel(deepseekResp) == gpt4oModel

\* openAIResp, built from deepseekResp.
TranslateResponse(deepseekResp) ==
    [ID |-> deepseekResp.ID,
     Object |-> "chat.completion",
     Created |-> deepseekResp.Created,
     Model |-> ClientFacingModel(deepseekResp),
     Choices |-> [i \in DOMAIN deepseekResp.Choices |->
                     TranslateChoice(deepseekResp.Choices[i])],
     Usage |-> deepseekResp.Usage]

(***************************************************************************)
(* The inputs of the handler: requests, bodies, upstream replies.          *)
(***************************************************************************)
Methods == {"OPTIONS", "GET", "POST"}

AuthHeaders ==
    { <<>>, <<"Basic ", deepseekAPIKey>>, <<"Bearer ", deepseekAPIKey>>,
      <<"Bearer ", openRouterAPIKey>> }

ModelsPath == <<"/v1/", "models">>

Paths == { ModelsPath, <<"/v1/", "chat/completions">>, <<"/", "health">> }

\* The headers of a request other than Authorization.
SampleRequestHeader ==
    [k \in {"Content-Length", "Content-Type", "User-Agent"} |->
        CASE k = "Content-Length" -> <<"42">>
          [] k = "Content-Type" -> <<"application/json">>
          [] OTHER -> <<"cursor">>]

Requests ==
    [method : Methods, auth : AuthHeaders, path : Paths,
     headers : {SampleRequestHeader}]

ToolCallPool ==
    { [id |-> "call_1", type |-> "function",
       function |-> [name |-> "get_weather", arguments |-> "{\"city\":1}"]],
      [id |-> "call_2", type |-> "function",
       function |-> [name |-> "search", arguments |-> "{}"]],
      [id |-> "call_3", type |-> "function",
       function |-> [name |-> "", arguments |-> "{}"]] }

FunctionPool ==
    [n \in {"get_weather", "search"} |->
        [name |-> n, description |-> "d", parameters |-> "{}"]]

\* No tools, or two tools; the second one has no description key.
SampleTools ==
    { <<>>,
      <<[type |-> "function", function |-> FunctionPool["search"]],
        [type |-> "function",
         function |-> [name |-> "get_weather", parameters |-> "{}"]]>> }

SampleFunctions ==
    { <<>>, <<FunctionPool["get_weather"], FunctionPool["search"]>> }

SampleToolChoices ==
    { NilValue, StringValue("auto"), StringValue("none"),
      StringValue("required"),
      ObjectValue([type |-> "function", function |-> [name |-> "search"]]),
      ObjectValue([type |-> "allowed_tools"]) }

SampleMessages ==
    { <<[role |-> "user", content |-> "hi"]>>,
      <<[role |-> "user", content |-> "hi"],
        ("role" :> "assistant") @@ ("content" :> "")
            @@ ("tool_calls" :> << [id |-> "call_1", type |-> "custom",
                   function |-> [name |-> "get_weather",
                                 arguments |-> "{\"city\":1}"]] >>),
        ("role" :> "function") @@ ("content" :> "sunny")
            @@ ("name" :> "get_weather")>> }

ClientModels == {gpt4oModel, deepseekChatModel}

\* Optional numbers: absent, zero, non-zero.
OptTemperatures == {<<>>, <<0>>, <<1>>}
OptMaxTokens == {<<>>, <<0>>, <<16>>}

ChatRequestJson(m, st, t, mt, tl, fn, tc, msgs) ==
    ("model" :> m) @@ ("messages" :> msgs) @@ ("stream" :> st)
    @@ Opt(t # <<>>, "temperature", IF t # <<>> THEN t[1] ELSE 0)
    @@ Opt(mt # <<>>, "max_tokens", IF mt # <<>> THEN mt[1] ELSE 0)
    @@ Opt(tl # <<>>, "tools", tl)
    @@ Opt(fn # <<>>, "functions", fn)
    @@ Opt(tc # NilValue, "tool_choice", tc)

ClientJsons ==
    { ChatRequestJson(m, st, t, mt, tl, fn, tc, msgs) :
        m \in ClientModels, st \in BOOLEAN, t \in OptTemperatures,
        mt \in OptMaxTokens, tl \in SampleTools, fn \in SampleFunctions,
        tc \in SampleToolChoices, msgs \in SampleMessages }

\* A body: one io.ReadAll could not read, one that is not JSON (an empty
\* body included), or a JSON object.
Unreadable == [kind |-> "unreadable"]
Invalid == [kind |-> "invalid"]
Json(j) == [kind |-> "json", json |-> j]
NoBody == [kind |-> "none"]
Text(t) == [kind |-> "text", text |-> t]

Bodies == {Unreadable, Invalid} \cup { Json(j) : j \in ClientJsons }

\* An upstream chat completion with the given tool-call list per choice.
ChatReplyJson(model, callLists) ==
    [id |-> "chatcmpl-1", object |-> "chat.completion", created |-> 1700,
     model |-> model,
     choices |-> [i \in DOMAIN callLists |->
         [index |-> i - 1,
          message |-> ("role" :> "assistant") @@ ("content" :> "ok")
                      @@ Opt(callLists[i] # <<>>, "tool_calls", callLists[i]),
          finish_reason |-> IF callLists[i] # <<>> THEN "tool_calls"
                            ELSE "stop"]],
     usage |-> 42]

CallLists == SeqsUpTo(ToolCallPool, MaxToolCalls)

\* The replies of the translation specification.
TranslateReplyJsons ==
    { ChatReplyJson(deepseekChatModel, cl) :
        cl \in SeqsUpTo(CallLists, MaxChoices) }

UpstreamStatuses == {200, 400, 429}

\* The reply bodies of the handler specification.
SampleReplyBodies ==
    { Unreadable, Invalid,
      Json([error |-> "rate limit"]),
      Json(ChatReplyJson(deepseekChatModel, <<>>)),
      Json(ChatReplyJson(deepseekCoderModel,
           << <<[id |-> "call_1", type |-> "function",
                 function |-> [name |-> "search", arguments |-> "{}"]]>> >>)) }

\* The headers of an upstream reply.
SampleReplyHeader ==
    [k \in {"Content-Length", "Content-Type"} |->
        IF k = "Content-Length" THEN <<"27">> ELSE <<"application/json">>]

Replies ==
    [status : UpstreamStatuses, body : SampleReplyBodies,
     headers : {SampleReplyHeader}]

NoReply == [status |-> 0, body |-> NoBody, headers |-> <<>>]
NoRequest == [method |-> "", auth |-> <<>>, path |-> <<>>, headers |-> <<>>]


(***************************************************************************)
(* proxyHandler.                                                           *)
(***************************************************************************)
StreamIdle ==
    /\ upstream = "open"
    /\ inbox = <<>>
    /\ tail = <<>>
    /\ sent = <<>>
    /\ relayPc = "idle"
    /\ cur = <<>>
    /\ hbPc = "idle"
    /\ tick = FALSE
    /\ beats = 0
    /\ ctxDone = FALSE
    /\ connBroken = FALSE
    /\ out = <<>>

\* No readResponse call is under way.
PoolIdle ==
    /\ pool = [small |-> {}, large |-> {}]
    /\ buffers = <<>>
    /\ arrays = <<>>
    /\ readers = <<>>

\* No convertMessages call is under way.
ConvIdle ==
    /\ callerMessages = <<>>
    /\ given = <<>>
    /\ converted = <<>>
    /\ convPc = "idle"

\* An http.Header is a function from the names present (in canonical
\* form) to their lists of values.
HeaderSet(h, k, v) == (k :> <<v>>) @@ h

HeaderGet(h, k) == IF k \in DOMAIN h /\ h[k] # <<>> THEN h[k][1] ELSE ""

skipHeaders ==
    {"Content-Length", "Content-Encoding", "Transfer-Encoding", "Connection"}

\* copyHeaders(dst, src): dst.Add of every value of every header of src that
\* is not skipped.
copyHeaders(dst, src) ==
    [k \in DOMAIN dst \cup (DOMAIN src \ skipHeaders) |->
        (IF k \in DOMAIN dst THEN dst[k] ELSE <<>>)
        \o (IF k \in DOMAIN src \ skipHeaders THEN src[k] ELSE <<>>)]

\* r.Header: the Authorization header and the others.
InboundHeader(r) ==
    IF r.auth = <<>> THEN r.headers
    ELSE ("Authorization" :> <<r.auth>>) @@ r.headers

\* proxyReq.Header as httpClient.Do gets it.  Header.Set writes the name
\* in canonical form, Http-Referer for "HTTP-Referer".
UpstreamHeader(cfg, r, chatReq) ==
    LET copied == copyHeaders(EmptyObj, InboundHeader(r))
        keyed == HeaderSet(HeaderSet(copied, "Authorization",
                                     <<"Bearer ", cfg.apiKey>>),
                           "Content-Type", "application/json")
        routed == IF cfg.endpoint = openRouterEndpoint
                  THEN HeaderSet(HeaderSet(keyed, "Http-Referer",
                           "https://github.com/danilofalcao/cursor-deepseek"),
                           "X-Title", "Cursor DeepSeek")
                  ELSE keyed
        accepting == IF chatReq.Stream
                     THEN HeaderSet(routed, "Accept", "text/event-stream")
                     ELSE routed
    IN  IF HeaderGet(InboundHeader(r), "Accept-Language") # ""
        THEN HeaderSet(accepting, "Accept-Language",
                       HeaderGet(InboundHeader(r), "Accept-Language"))
        ELSE accepting

\* The headers the handler sets with a body of this kind: http.Error for a
\* text, Content-Type for JSON the proxy wrote, none without a body.
ResponseHeader(h, b) ==
    CASE b.kind = "text" ->
            HeaderSet(HeaderSet(h, "Content-Type",
                                "text/plain; charset=utf-8"),
                      "X-Content-Type-Options", "nosniff")
      [] b.kind = "json" -> HeaderSet(h, "Content-Type", "application/json")
      [] OTHER -> h

\* The headers handleStreamingResponse sets before it writes the status.
StreamingHeader(h) ==
    HeaderSet(HeaderSet(HeaderSet(h, "Content-Type", "text/event-stream"),
                        "Cache-Control", "no-cache"),
              "Connection", "keep-alive")

\* enableCors: the five headers it sets on the response.
CorsHeaders ==
    [k \in {"Access-Control-Allow-Origin", "Access-Control-Allow-Methods",
            "Access-Control-Allow-Headers", "Access-Control-Expose-Headers",
            "Access-Control-Allow-Credentials"} |->
        CASE k = "Access-Control-Allow-Origin" -> <<"*">>
          [] k = "Access-Control-Allow-Methods" -> <<"POST, GET, OPTIONS">>
          [] k = "Access-Control-Allow-Headers" ->
                <<"Origin, Content-Type, Accept, Authorization">>
          [] k = "Access-Control-Expose-Headers" -> <<"Content-Length">>
          [] OTHER -> <<"true">>]

enableCors(headers) == CorsHeaders @@ headers

Init ==
    /\ activeConfig \in Profiles
    /\ pc = "idle"
    /\ req = NoRequest
    /\ body = NoBody
    /\ upstreamCalls = <<>>
    /\ reply = NoReply
    /\ clientResp = [statuses |-> <<>>, body |-> NoBody,
                     headers |-> EmptyObj]
    /\ streamStarted = FALSE
    /\ StreamIdle
    /\ PoolIdle
    /\ ConvIdle

\* The handler writes a status and a body and returns.
Respond(status, b) ==
    /\ clientResp' = [statuses |-> Append(clientResp.statuses, status),
                      body |-> b,
                      headers |-> ResponseHeader(clientResp.headers, b)]
    /\ pc' = "done"

\* A request arrives and proxyHandler is entered; both branches of its
\* method test begin with enableCors(w).
Receive ==
    /\ pc = "idle"
    /\ \E r \in Requests : req' = r
    /\ clientResp' = [clientResp EXCEPT !.headers = enableCors(@)]
    /\ pc' = "gate"
    /\ UNCHANGED <<activeConfig, body, upstreamCalls, reply, streamStarted,
                   streamVars, poolVars, convVars>>

\* A mutant of Authorized: any bearer credential is accepted.
AuthorizedAnyBearer == HasPrefix(req.auth, "Bearer ")

\* The Authorization header names the configured key.
Authorized ==
    /\ HasPrefix(req.auth, "Bearer ")
    /\ TrimPrefix(req.auth, "Bearer ") = <<activeConfig.apiKey>>

\* The body of handleModelsRequest.
ModelsList ==
    [object |-> "list",
     data |-> << [id |-> "gpt-4o", object |-> "model", owned_by |-> "openai"],
                 [id |-> "deepseek-chat", object |-> "model",
                  owned_by |-> "deepseek"] >>]

\* OPTIONS: the CORS headers, nothing else.
Preflight ==
    /\ pc = "gate"
    /\ req.method = "OPTIONS"
    /\ Respond(StatusOK, NoBody)
    /\ UNCHANGED <<activeConfig, req, body, upstreamCalls, reply,
                   streamStarted, streamVars, poolVars, convVars>>

RejectAuth ==
    /\ pc = "gate"
    /\ req.method # "OPTIONS"
    /\ ~Authorized
    /\ Respond(StatusUnauthorized,
               IF ~HasPrefix(req.auth, "Bearer ")
               THEN Text(<<"Missing or invalid Authorization header">>)
               ELSE Text(<<"Invalid API key">>))
    /\ UNCHANGED <<activeConfig, req, body, upstreamCalls, reply,
                   streamStarted, streamVars, poolVars, convVars>>

\* GET /v1/models, served before the body is read.
ServeModels ==
    /\ pc = "gate"
    /\ req.method # "OPTIONS"
    /\ Authorized
    /\ req.path = ModelsPath /\ req.method = "GET"
    /\ Respond(StatusOK, Json(ModelsList))
    /\ UNCHANGED <<activeConfig, req, body, upstreamCalls, reply,
                   streamStarted, streamVars, poolVars, convVars>>

\* io.ReadAll(r.Body).
ReadBody ==
    /\ pc = "gate"
    /\ req.method # "OPTIONS"
    /\ Authorized
    /\ ~(req.path = ModelsPath /\ req.method = "GET")
    /\ \E b \in Bodies : body' = b
    /\ pc' = "body"
    /\ UNCHANGED <<activeConfig, req, upstreamCalls, reply, clientResp,
                   streamStarted, streamVars, poolVars, convVars>>

RejectUnreadable ==
    /\ pc = "body"
    /\ body.kind = "unreadable"
    /\ Respond(StatusBadRequest, Text(<<"Error reading request">>))
    /\ UNCHANGED <<activeConfig, req, body, upstreamCalls, reply,
                   streamStarted, streamVars, poolVars, convVars>>

RejectInvalidJSON ==
    /\ pc = "body"
    /\ body.kind = "invalid"
    /\ Respond(StatusBadRequest, Text(<<"Invalid JSON">>))
    /\ UNCHANGED <<activeConfig, req, body, upstreamCalls, reply,
                   streamStarted, streamVars, poolVars, convVars>>

\* /v1/models with any other method, served once the body has parsed.
ServeModelsParsed ==
    /\ pc = "body"
    /\ body.kind = "json"
    /\ req.path = ModelsPath
    /\ Respond(StatusOK, Json(ModelsList))
    /\ UNCHANGED <<activeConfig, req, body, upstreamCalls, reply,
                   streamStarted, streamVars, poolVars, convVars>>

RejectPath ==
    /\ pc = "body"
    /\ body.kind = "json"
    /\ req.path # ModelsPath
    /\ ~HasPrefix(req.path, "/v1/")
    /\ Respond(StatusNotFound, Text(<<"Not found">>))
    /\ UNCHANGED <<activeConfig, req, body, upstreamCalls, reply,
                   streamStarted, streamVars, poolVars, convVars>>

\* The request reaches the model check.
AtModelCheck ==
    /\ pc = "body"
    /\ body.kind = "json"
    /\ req.path # ModelsPath
    /\ HasPrefix(req.path, "/v1/")

RejectModel ==
    /\ AtModelCheck
    /\ ~ModelSupported(UnmarshalChatRequest(body.json).Model)
    /\ Respond(StatusBadRequest,
               Text(<<"Model ", UnmarshalChatRequest(body.json).Model,
                      " not supported. Use ", gpt4oModel, " instead.">>))
    /\ UNCHANGED <<activeConfig, req, body, upstreamCalls, reply,
                   streamStarted, streamVars, poolVars, convVars>>

\* The request is translated and httpClient.Do is called with it.
Forward ==
    /\ AtModelCheck
    /\ ModelSupported(UnmarshalChatRequest(body.json).Model)
    /\ upstreamCalls' = Append(upstreamCalls,
          [method |-> req.method,
           url |-> <<activeConfig.endpoint>> \o req.path,
           headers |-> UpstreamHeader(activeConfig, req,
                                      UnmarshalChatRequest(body.json)),
           body |-> MarshalDeepSeekRequest(
                        BuildDeepSeekRequest(activeConfig,
                            UnmarshalChatRequest(body.json)))])
    /\ pc' = "upstream"
    /\ UNCHANGED <<activeConfig, req, body, reply, clientResp, streamStarted,
                   streamVars, poolVars, convVars>>

\* A mutant of TransportFailure: the call is issued again.
TransportFailureRetried ==
    /\ pc = "upstream"
    /\ pc' = "body"
    /\ UNCHANGED <<activeConfig, req, body, upstreamCalls, reply, clientResp,
                   streamStarted, streamVars, poolVars, convVars>>

\* httpClient.Do returns an error.
TransportFailure ==
    /\ pc = "upstream"
    /\ Respond(StatusBadGateway, Text(<<"Error forwarding request">>))
    /\ UNCHANGED <<activeConfig, req, body, upstreamCalls, reply,
                   streamStarted, streamVars, poolVars, convVars>>

\* httpClient.Do returns a response.
UpstreamReplies ==
    /\ pc = "upstream"
    /\ \E r \in Replies : reply' = r
    /\ pc' = "replied"
    /\ UNCHANGED <<activeConfig, req, body, upstreamCalls, clientResp,
                   streamStarted, streamVars, poolVars, convVars>>

\* A mutant of ForwardError: the upstream error is reported as a gateway
\* error of the proxy.
ForwardErrorAsBadGateway ==
    /\ pc = "replied"
    /\ reply.status >= 400
    /\ Respond(StatusBadGateway, reply.body)
    /\ UNCHANGED <<activeConfig, req, body, upstreamCalls, reply,
                   streamStarted, streamVars, poolVars, convVars>>

\* resp.StatusCode >= 400: status and body are forwarded.
ForwardError ==
    /\ pc = "replied"
    /\ reply.status >= 400
    /\ IF reply.body.kind = "unreadable"
       THEN Respond(StatusInternalServerError,
                    Text(<<"Error reading response">>))
       ELSE /\ clientResp' =
                  [statuses |-> Append(clientResp.statuses, reply.status),
                   body |-> reply.body,
                   headers |-> HeaderSet(reply.headers @@ clientResp.headers,
                                         "Content-Type", "application/json")]
            /\ pc' = "done"
    /\ UNCHANGED <<activeConfig, req, body, upstreamCalls, reply,
                   streamStarted, streamVars, poolVars, convVars>>

\* handleStreamingResponse is entered: the headers and the status are
\* written; the relay itself is the streaming specification.
StartStreaming ==
    /\ pc = "replied"
    /\ reply.status < 400
    /\ UnmarshalChatRequest(body.json).Stream
    /\ clientResp' = [clientResp EXCEPT
          !.statuses = Append(@, reply.status),
          !.headers = StreamingHeader(@)]
    /\ streamStarted' = TRUE
    /\ pc' = "streaming"
    /\ UNCHANGED <<activeConfig, req, body, upstreamCalls, reply, streamVars,
                   poolVars, convVars>>

\* handleRegularResponse.
RegularResponse ==
    /\ pc = "replied"
    /\ reply.status < 400
    /\ ~UnmarshalChatRequest(body.json).Stream
    /\ CASE reply.body.kind = "unreadable" ->
              Respond(StatusInternalServerError,
                      Text(<<"Error reading response from upstream">>))
         [] reply.body.kind = "invalid" ->
              Respond(StatusInternalServerError, NoBody)
         [] OTHER ->
              Respond(reply.status,
                      Json(MarshalResponse(TranslateResponse(
                               UnmarshalResponse(reply.body.json)))))
    /\ UNCHANGED <<activeConfig, req, body, upstreamCalls, reply,
                   streamStarted, streamVars, poolVars, convVars>>

Next ==
    \/ Receive
    \/ Preflight
    \/ RejectAuth
    \/ ServeModels
    \/ ReadBody
    \/ RejectUnreadable
    \/ RejectInvalidJSON
    \/ ServeModelsParsed
    \/ RejectPath
    \/ RejectModel
    \/ Forward
    \/ TransportFailure
    \/ UpstreamReplies
    \/ ForwardError
    \/ StartStreaming
    \/ RegularResponse

Spec == Init /\ [][Next]_vars

(***************************************************************************)
(* The translation of a non-streaming reply on its own: the handler has    *)
(* forwarded a non-streaming request and upstream has answered 200 with    *)
(* any reply of up to MaxChoices choices of up to MaxToolCalls tool calls. *)
(***************************************************************************)
TranslateInit ==
    /\ activeConfig = [endpoint |-> deepseekEndpoint,
                       model |-> deepseekChatModel,
                       apiKey |-> deepseekAPIKey]
    /\ pc = "replied"
    /\ req = [method |-> "POST", auth |-> <<"Bearer ", deepseekAPIKey>>,
              path |-> <<"/v1/", "chat/completions">>,
              headers |-> SampleRequestHeader]
    /\ body = Json(ChatRequestJson(gpt4oModel, FALSE, <<>>, <<>>, <<>>, <<>>,
                                   NilValue,
                                   <<[role |-> "user", content |-> "hi"]>>))
    /\ upstreamCalls =
          <<[method |-> req.method,
             url |-> <<activeConfig.endpoint>> \o req.path,
             headers |-> UpstreamHeader(activeConfig, req,
                                        UnmarshalChatRequest(body.json)),
             body |-> MarshalDeepSeekRequest(
                          BuildDeepSeekRequest(activeConfig,
                              UnmarshalChatRequest(body.json)))]>>
    /\ \E j \in TranslateReplyJsons :
          reply = [status |-> 200, body |-> Json(j),
                   headers |-> SampleReplyHeader]
    /\ clientResp = [statuses |-> <<>>, body |-> NoBody,
                     headers |-> CorsHeaders]
    /\ streamStarted = FALSE
    /\ StreamIdle
    /\ PoolIdle
    /\ ConvIdle

TranslateNext == RegularResponse

TranslateSpec == TranslateInit /\ [][TranslateNext]_vars


(***************************************************************************)
(* Claims about the handler and the schema translation.                    *)
(***************************************************************************)

\* handleRegularResponse has translated a parsed upstream reply.
Translated ==
    /\ pc = "done"
    /\ reply.status # 0 /\ reply.status < 400
    /\ reply.body.kind = "json"

\* The tool calls of a choice in JSON form (none when the key is omitted).
ToolCallsOf(choiceJson) == Field(choiceJson.message, "tool_calls", <<>>)

UpstreamChoices == Field(reply.body.json, "choices", <<>>)

EmittedChoices == clientResp.body.json.choices

\* C1: in a translated non-streaming reply every upstream choice is emitted,
\* and no emitted choice holds a tool call whose function name is empty (a
\* choice whose tool calls all have empty names is emitted with none).
C1_NoEmptyNameEmitted ==
    Translated =>
        /\ Len(EmittedChoices) = Len(UpstreamChoices)
        /\ \A i \in DOMAIN EmittedChoices :
              \A k \in DOMAIN ToolCallsOf(EmittedChoices[i]) :
                  ToolCallsOf(EmittedChoices[i])[k].function.name # ""

\* Every tool call of the upstream reply has a function name.
AllNamed ==
    \A i \in DOMAIN UpstreamChoices :
        \A k \in DOMAIN ToolCallsOf(UpstreamChoices[i]) :
            ToolCallsOf(UpstreamChoices[i])[k].function.name # ""

\* C2: a non-streaming reply whose tool calls all have names comes out with
\* the same choices in the same order, each with exactly upstream's sequence
\* of tool calls, model "gpt-4o" and object "chat.completion".
C2_RoundTrip ==
    (Translated /\ AllNamed) =>
        /\ Len(EmittedChoices) = Len(UpstreamChoices)
        /\ \A i \in DOMAIN EmittedChoices :
              /\ EmittedChoices[i].index = UpstreamChoices[i].index
              /\ ToolCallsOf(EmittedChoices[i])
                     = ToolCallsOf(UpstreamChoices[i])
        /\ clientResp.body.json.model = gpt4oModel
        /\ clientResp.body.json.object = "chat.completion"

\* An optional key of the client's body reaches the upstream body exactly
\* when the client gave it, with the client's value.
PresencePreserved(k) ==
    \A i \in DOMAIN upstreamCalls :
        /\ (k \in DOMAIN upstreamCalls[i].body) <=> (k \in DOMAIN body.json)
        /\ (k \in DOMAIN body.json /\ k \in DOMAIN upstreamCalls[i].body)
              => upstreamCalls[i].body[k] = body.json[k]

\* C8: the upstream body holds temperature (max_tokens) if and only if the
\* client's request did, and then with the client's value, 0 included.
C8_OptionalScalarsPreserved ==
    PresencePreserved("temperature") /\ PresencePreserved("max_tokens")

\* An authenticated request to a /v1/ path whose body parsed and names a
\* model other than gpt-4o.
UnsupportedModelRequest ==
    /\ pc \notin {"idle", "gate"}
    /\ Authorized
    /\ HasPrefix(req.path, "/v1/")
    /\ body.kind = "json"
    /\ UnmarshalChatRequest(body.json).Model # gpt4oModel

\* The outcome of a rejected model: 400, a body naming the model, no
\* upstream call.
RejectedAsUnsupported ==
    /\ upstreamCalls = <<>>
    /\ pc = "done" =>
          /\ clientResp.statuses = <<StatusBadRequest>>
          /\ clientResp.body.kind = "text"
          /\ UnmarshalChatRequest(body.json).Model
                 \in Range(clientResp.body.text)

\* C9 as stated: every authenticated request to a /v1/ path with a parseable
\* body whose model is not "gpt-4o" gets 400 with a body naming the model,
\* and no upstream call.
C9_AsStated == UnsupportedModelRequest => RejectedAsUnsupported

\* C9 as amended: the same for every non-OPTIONS request to a /v1/ path other
\* than /v1/models (which is answered with the models list).
C9_UnsupportedModelRejected ==
    (UnsupportedModelRequest /\ req.method # "OPTIONS"
        /\ req.path # ModelsPath) => RejectedAsUnsupported

C9_Witness ==
    /\ UnsupportedModelRequest
    /\ req.path # ModelsPath
    /\ pc = "done"
    /\ clientResp.statuses = <<StatusBadRequest>>

\* C10: every upstream request sent carries the active profile's model, and
\* the translated reply of a non-streaming success carries "gpt-4o".
C10_ModelOverwritten ==
    /\ \A i \in DOMAIN upstreamCalls :
          upstreamCalls[i].body.model = activeConfig.model
    /\ Translated => clientResp.body.json.model = gpt4oModel

C10_Witness ==
    /\ Translated
    /\ upstreamCalls # <<>>
    /\ UnmarshalChatRequest(body.json).Model # activeConfig.model
    /\ "model" \in DOMAIN reply.body.json
    /\ reply.body.json.model # gpt4oModel

\* The tools and the legacy functions of the client's body.
InboundTools == Field(body.json, "tools", <<>>)
InboundFunctions == Field(body.json, "functions", <<>>)

\* The tool_choice the collapsing table gives for the client's body: a
\* sequence, empty when the key is to be omitted.
ExpectedToolChoice ==
    IF "tool_choice" \notin DOMAIN body.json THEN <<>>
    ELSE LET tc == body.json["tool_choice"]
         IN  IF tc = StringValue("auto") THEN <<"auto">>
             ELSE IF tc = StringValue("none") THEN <<"none">>
             ELSE IF tc.kind = "object" /\ "type" \in DOMAIN tc.obj
                     /\ tc.obj["type"] = "function" THEN <<"auto">>
             ELSE <<>>

\* The tool_choice of an upstream body, as a sequence of length 0 or 1.
SentToolChoice(b) ==
    IF "tool_choice" \in DOMAIN b THEN <<b["tool_choice"]>> ELSE <<>>

\* C11: a request with tools (or lifted functions) that is forwarded carries
\* the tool_choice of the table: absent -> omitted, "auto" -> "auto",
\* "none" -> "none", an object of type "function" -> "auto", anything else
\* -> omitted; the conversion rejects nothing.
C11_ToolChoiceCollapsed ==
    /\ \A i \in DOMAIN upstreamCalls :
          (InboundTools # <<>> \/ InboundFunctions # <<>>)
              => SentToolChoice(upstreamCalls[i].body) = ExpectedToolChoice
    /\ pc = "upstream" => clientResp.statuses = <<>>

C11_Witness ==
    /\ upstreamCalls # <<>>
    /\ InboundTools # <<>>
    /\ "tool_choice" \in DOMAIN body.json
    /\ body.json["tool_choice"].kind = "object"
    /\ SentToolChoice(upstreamCalls[1].body) = <<"auto">>

\* One tool in JSON form, field by field as the Function struct reads it.
SameTool(tl, inbound) ==
    /\ Field(tl, "type", "") = Field(inbound, "type", "")
    /\ \A k \in {"name", "description"} :
          Field(Field(tl, "function", EmptyObj), k, "")
              = Field(Field(inbound, "function", EmptyObj), k, "")
    /\ Field(Field(tl, "function", EmptyObj), "parameters", "null")
          = Field(Field(inbound, "function", EmptyObj), "parameters", "null")

UpstreamErrorHandled ==
    /\ pc \in {"done", "streaming"}
    /\ reply # NoReply
    /\ reply.status >= 400

\* The client got the upstream status and the upstream body, untranslated,
\* and handleStreamingResponse was not entered.
ErrorPassedThrough ==
    /\ clientResp.statuses = <<reply.status>>
    /\ clientResp.body = reply.body
    /\ ~streamStarted
    /\ StreamIdle

\* C13 as stated: every upstream reply with status >= 400, streaming
\* requested or not, reaches the client with exactly that status and that
\* body, and the streaming relay and heartbeat are never started for it.
C13_AsStated == UpstreamErrorHandled => ErrorPassedThrough

\* C13: an upstream reply with status >= 400 whose body could be read
\* reaches the client with exactly that status and that body, streaming
\* requested or not, and the relay and heartbeat are never started; when
\* the body cannot be read the client gets 500 and no stream either.
C13_ErrorForwarded ==
    UpstreamErrorHandled =>
        IF reply.body.kind # "unreadable"
        THEN ErrorPassedThrough
        ELSE /\ clientResp.statuses = <<StatusInternalServerError>>
             /\ ~streamStarted
             /\ StreamIdle

C13_Witness ==
    /\ UpstreamErrorHandled
    /\ UnmarshalChatRequest(body.json).Stream
    /\ reply.status = 429
    /\ reply.body.kind = "json"
    /\ "choices" \in DOMAIN reply.body.json
    /\ ErrorPassedThrough


\* The handler has returned, or has handed over to the streaming relay.
Finished == pc \in {"done", "streaming"}

\* C14: an authenticated non-OPTIONS request whose path does not start
\* with "/v1/" is answered 404 whatever its body is (empty and non-JSON
\* bodies included), and no upstream call is issued for it.
C14_PathRejected ==
    (/\ Finished
     /\ req.method # "OPTIONS"
     /\ Authorized
     /\ ~HasPrefix(req.path, "/v1/"))
        => /\ clientResp.statuses = <<StatusNotFound>>
           /\ upstreamCalls = <<>>

\* A request has arrived that is not OPTIONS and does not carry the
\* configured key as its bearer credential.
Unauthorized ==
    /\ req # NoRequest
    /\ req.method # "OPTIONS"
    /\ \/ req.auth = <<>>
       \/ req.auth[1] # "Bearer "
       \/ req.auth # <<"Bearer ", activeConfig.apiKey>>

\* C15: a non-OPTIONS request without the configured bearer credential is
\* answered 401: its body is never read, the models list is not served, no
\* upstream call is made.  An OPTIONS request on any path is answered with
\* the CORS headers and nothing else, and never reaches upstream.
C15_AuthorizationGate ==
    /\ Unauthorized =>
          /\ pc \in {"gate", "done"}
          /\ body = NoBody
          /\ upstreamCalls = <<>>
          /\ reply = NoReply
          /\ pc = "done" => /\ clientResp.statuses = <<StatusUnauthorized>>
                            /\ clientResp.body.kind = "text"
    /\ (req # NoRequest /\ req.method = "OPTIONS") =>
          /\ pc \in {"gate", "done"}
          /\ body = NoBody
          /\ upstreamCalls = <<>>
          /\ reply = NoReply
          /\ pc = "done" => /\ clientResp.headers = CorsHeaders
                            /\ clientResp.body = NoBody
                            /\ clientResp.statuses = <<StatusOK>>

C15_Witness ==
    /\ pc = "done"
    /\ Unauthorized
    /\ HasPrefix(req.auth, "Bearer ")
    /\ req.path = ModelsPath /\ req.method = "GET"
    /\ clientResp.statuses = <<StatusUnauthorized>>

\* The request passes the authentication, parsing, path and model checks
\* of proxyHandler (the path checks are the /v1/models route and the
\* "/v1/" prefix).
PassesChecks ==
    /\ req.method # "OPTIONS"
    /\ Authorized
    /\ body.kind = "json"
    /\ req.path # ModelsPath
    /\ HasPrefix(req.path, "/v1/")
    /\ ModelSupported(UnmarshalChatRequest(body.json).Model)

LF == "\n"

Whitespace == {" ", LF}

\* The complete lines upstream may send: a payload line and a blank one.
StreamLines == { <<"a", LF>>, <<" ", LF>> }

\* What may follow the last newline when the stream ends.
StreamTails == { <<>>, <<"c">> }

\* The bytes of one heartbeat write.
Heartbeat == <<":", " ", "heartbeat", LF, LF>>

\* A goroutine at position p is inside w.Write or f.Flush.
InWrite(p) == p \in {"writing", "flushing"}

\* The bytes the connection gets from a write that ran into another call
\* on the one ResponseWriter: some mixture of the two.
Mixed == <<"mixed">>

\* What the connection may get from a write of w made while the other
\* goroutine is at position other: w, or a mixture when that goroutine is
\* inside a write or flush of its own (the calls are not synchronised).
Written(w, other) == IF InWrite(other) THEN {w, Mixed} ELSE {w}

RECURSIVE TrimLeft(_)
TrimLeft(s) ==
    IF s # <<>> /\ Head(s) \in Whitespace THEN TrimLeft(Tail(s)) ELSE s

RECURSIVE TrimRight(_)
TrimRight(s) ==
    IF s # <<>> /\ s[Len(s)] \in Whitespace
    THEN TrimRight(SubSeq(s, 1, Len(s) - 1))
    ELSE s

\* bytes.TrimSpace.
TrimSpace(s) == TrimRight(TrimLeft(s))

\* The state handleStreamingResponse starts the loop in: the headers and the
\* status are written, the heartbeat goroutine is started.
StreamInit ==
    /\ activeConfig = [endpoint |-> deepseekEndpoint,
                       model |-> deepseekChatModel,
                       apiKey |-> deepseekAPIKey]
    /\ pc = "streaming"
    /\ req = [method |-> "POST", auth |-> <<"Bearer ", deepseekAPIKey>>,
              path |-> <<"/v1/", "chat/completions">>,
              headers |-> SampleRequestHeader]
    /\ body = Json(ChatRequestJson(gpt4oModel, TRUE, <<>>, <<>>, <<>>, <<>>,
                                   NilValue,
                                   <<[role |-> "user", content |-> "hi"]>>))
    /\ upstreamCalls =
          <<[method |-> req.method,
             url |-> <<activeConfig.endpoint>> \o req.path,
             headers |-> UpstreamHeader(activeConfig, req,
                                        UnmarshalChatRequest(body.json)),
             body |-> MarshalDeepSeekRequest(
                          BuildDeepSeekRequest(activeConfig,
                              UnmarshalChatRequest(body.json)))]>>
    /\ reply = [status |-> 200, body |-> NoBody,
                headers |-> SampleReplyHeader]
    /\ clientResp = [statuses |-> <<200>>, body |-> NoBody,
                     headers |-> StreamingHeader(CorsHeaders)]
    /\ streamStarted = TRUE
    /\ upstream = "open"
    /\ inbox = <<>>
    /\ tail = <<>>
    /\ sent = <<>>
    /\ relayPc = "select"
    /\ cur = <<>>
    /\ hbPc = "select"
    /\ tick = FALSE
    /\ beats = 0
    /\ ctxDone = FALSE
    /\ connBroken = FALSE
    /\ out = <<>>
    /\ PoolIdle
    /\ ConvIdle

\* The handler has returned: proxyHandler's deferred resp.Body.Close() has
\* released the upstream body.
BodyOpen == relayPc # "returned"

\* Upstream sends one more complete line.
UpstreamLine ==
    /\ BodyOpen
    /\ upstream = "open"
    /\ Len(sent) < MaxLines
    /\ \E l \in StreamLines :
          /\ inbox' = Append(inbox, l)
          /\ sent' = Append(sent, l)
    /\ UNCHANGED <<poolVars, convVars, handlerVars, upstream, tail, relayPc,
                   cur, hbPc, tick, beats, ctxDone, connBroken, out>>

\* The upstream body ends cleanly, with the bytes t after the last newline.
UpstreamEOF ==
    /\ BodyOpen
    /\ upstream = "open"
    /\ upstream' = "eof"
    /\ \E t \in StreamTails :
          /\ tail' = t
          /\ sent' = IF t # <<>> THEN Append(sent, t) ELSE sent
    /\ UNCHANGED <<poolVars, convVars, handlerVars, inbox, relayPc, cur, hbPc,
                   tick, beats, ctxDone, connBroken, out>>

\* The upstream connection fails mid-stream.
UpstreamError ==
    /\ BodyOpen
    /\ upstream = "open"
    /\ upstream' = "error"
    /\ \E t \in StreamTails :
          /\ tail' = t
          /\ sent' = IF t # <<>> THEN Append(sent, t) ELSE sent
    /\ UNCHANGED <<poolVars, convVars, handlerVars, inbox, relayPc, cur, hbPc,
                   tick, beats, ctxDone, connBroken, out>>

\* httpClient.Timeout (5 minutes) runs out while the body is still open:
\* the pending and every later read of the body fails.
UpstreamTimeout ==
    /\ BodyOpen
    /\ upstream = "open"
    /\ upstream' = "timeout"
    /\ UNCHANGED <<poolVars, convVars, handlerVars, inbox, tail, sent,
                   relayPc, cur, hbPc, tick, beats, ctxDone, connBroken, out>>

\* The ticker of the heartbeat goroutine fires (ticker.C holds one tick).
Tick ==
    /\ hbPc # "stopped"
    /\ ~tick
    /\ beats < MaxBeats
    /\ tick' = TRUE
    /\ beats' = beats + 1
    /\ UNCHANGED <<poolVars, convVars, handlerVars, upstream, inbox, tail,
                   sent, relayPc, cur, hbPc, ctxDone, connBroken, out>>

\* The client goes away: writes to the connection may fail from now on.
ClientDisconnect ==
    /\ ~connBroken
    /\ connBroken' = TRUE
    /\ UNCHANGED <<poolVars, convVars, handlerVars, upstream, inbox, tail,
                   sent, relayPc, cur, hbPc, tick, beats, ctxDone, out>>

\* The server cancels r.Context(), the parent of ctx.
InboundCancel ==
    /\ connBroken
    /\ ~ctxDone
    /\ ctxDone' = TRUE
    /\ UNCHANGED <<poolVars, convVars, handlerVars, upstream, inbox, tail,
                   sent, relayPc, cur, hbPc, tick, beats, connBroken, out>>

\* A mutant of RelayCancelled: the loop does not look at ctx.Done().
RelayNeverCancelled == FALSE /\ UNCHANGED vars

\* The loop's select, case <-ctx.Done(): the handler returns.
RelayCancelled ==
    /\ relayPc = "select"
    /\ ctxDone
    /\ relayPc' = "returned"
    /\ UNCHANGED <<poolVars, convVars, handlerVars, upstream, inbox, tail,
                   sent, cur, hbPc, tick, beats, ctxDone, connBroken, out>>

\* The loop's select, default: reader.ReadBytes('\n') is called.
RelayBeginRead ==
    /\ relayPc = "select"
    /\ ~ctxDone
    /\ relayPc' = "reading"
    /\ UNCHANGED <<poolVars, convVars, handlerVars, upstream, inbox, tail,
                   sent, cur, hbPc, tick, beats, ctxDone, connBroken, out>>

\* ReadBytes returns a complete line: a blank one is skipped, any other one
\* goes to w.Write.
RelayReadLine ==
    /\ relayPc = "reading"
    /\ inbox # <<>>
    /\ inbox' = Tail(inbox)
    /\ IF Len(TrimSpace(Head(inbox))) = 0
       THEN relayPc' = "select" /\ cur' = cur
       ELSE relayPc' = "writing" /\ cur' = Head(inbox)
    /\ UNCHANGED <<poolVars, convVars, handlerVars, upstream, tail, sent,
                   hbPc, tick, beats, ctxDone, connBroken, out>>

\* ReadBytes returns the bytes after the last newline with io.EOF: the
\* loop continues, and the bytes are dropped.
RelayReadEOF ==
    /\ relayPc = "reading"
    /\ inbox = <<>>
    /\ upstream = "eof"
    /\ tail' = <<>>
    /\ relayPc' = "select"
    /\ UNCHANGED <<poolVars, convVars, handlerVars, upstream, inbox, sent,
                   cur, hbPc, tick, beats, ctxDone, connBroken, out>>

\* ReadBytes returns another error: cancel() and return.
RelayReadError ==
    /\ relayPc = "reading"
    /\ inbox = <<>>
    /\ upstream \in {"error", "timeout"}
    /\ tail' = <<>>
    /\ ctxDone' = TRUE
    /\ relayPc' = "returned"
    /\ UNCHANGED <<poolVars, convVars, handlerVars, upstream, inbox, sent,
                   cur, hbPc, tick, beats, connBroken, out>>

\* w.Write(line) returns: nil, or an error once the client is gone (then
\* cancel() and return).
RelayWrite ==
    /\ relayPc = "writing"
    /\ \/ /\ \E w \in Written(cur, hbPc) : out' = Append(out, w)
          /\ relayPc' = "flushing"
          /\ UNCHANGED ctxDone
       \/ /\ connBroken
          /\ ctxDone' = TRUE
          /\ relayPc' = "returned"
          /\ UNCHANGED out
    /\ UNCHANGED <<poolVars, convVars, handlerVars, upstream, inbox, tail,
                   sent, cur, hbPc, tick, beats, connBroken>>

\* f.Flush() returns.
RelayFlush ==
    /\ relayPc = "flushing"
    /\ relayPc' = "select"
    /\ UNCHANGED <<poolVars, convVars, handlerVars, upstream, inbox, tail,
                   sent, cur, hbPc, tick, beats, ctxDone, connBroken, out>>

\* The goroutine's select, case <-ticker.C: the heartbeat write starts.
\* When ctx.Done() is ready too, select picks either case.
HbTick ==
    /\ hbPc = "select"
    /\ tick
    /\ tick' = FALSE
    /\ hbPc' = "writing"
    /\ UNCHANGED <<poolVars, convVars, handlerVars, upstream, inbox, tail,
                   sent, relayPc, cur, beats, ctxDone, connBroken, out>>

\* The goroutine's select, case <-ctx.Done(): the goroutine ends.
HbExit ==
    /\ hbPc = "select"
    /\ ctxDone
    /\ hbPc' = "stopped"
    /\ UNCHANGED <<poolVars, convVars, handlerVars, upstream, inbox, tail,
                   sent, relayPc, cur, tick, beats, ctxDone, connBroken, out>>

\* w.Write(": heartbeat\n\n") returns: nil, or an error once the client is
\* gone (then cancel() and return).
HbWrite ==
    /\ hbPc = "writing"
    /\ \/ /\ \E w \in Written(Heartbeat, relayPc) : out' = Append(out, w)
          /\ hbPc' = "flushing"
          /\ UNCHANGED ctxDone
       \/ /\ connBroken
          /\ ctxDone' = TRUE
          /\ hbPc' = "stopped"
          /\ UNCHANGED out
    /\ UNCHANGED <<poolVars, convVars, handlerVars, upstream, inbox, tail,
                   sent, relayPc, cur, tick, beats, connBroken>>

\* f.Flush() returns.
HbFlush ==
    /\ hbPc = "flushing"
    /\ hbPc' = "select"
    /\ UNCHANGED <<poolVars, convVars, handlerVars, upstream, inbox, tail,
                   sent, relayPc, cur, tick, beats, ctxDone, connBroken, out>>

StreamNext ==
    \/ UpstreamLine
    \/ UpstreamEOF
    \/ UpstreamError
    \/ UpstreamTimeout
    \/ Tick
    \/ ClientDisconnect
    \/ InboundCancel
    \/ RelayCancelled
    \/ RelayBeginRead
    \/ RelayReadLine
    \/ RelayReadEOF
    \/ RelayReadError
    \/ RelayWrite
    \/ RelayFlush
    \/ HbTick
    \/ HbExit
    \/ HbWrite
    \/ HbFlush

\* The relay loop, a sequential process: at most one of these is enabled.
RelayStep ==
    \/ RelayCancelled
    \/ RelayBeginRead
    \/ RelayReadLine
    \/ RelayReadEOF
    \/ RelayReadError
    \/ RelayWrite
    \/ RelayFlush

\* The heartbeat goroutine but for its exit.
HbStep ==
    \/ HbTick
    \/ HbWrite
    \/ HbFlush

\* Both goroutines are scheduled and every call that can return does; a
\* select with ctx.Done() ready takes that case sooner or later (Go picks
\* among the ready cases at random); the client's timer fires; the server
\* cancels the context of a request whose connection is gone.
StreamFairness ==
    /\ WF_vars(RelayStep)
    /\ WF_vars(HbStep)
    /\ SF_vars(HbExit)
    /\ WF_vars(UpstreamTimeout)
    /\ WF_vars(InboundCancel)

StreamSpec == StreamInit /\ [][StreamNext]_vars /\ StreamFairness

\* The relay with no assumption but that the heartbeat goroutine is
\* scheduled: upstream may stall and the relay loop may stay blocked for
\* ever.
HeartbeatSpec == StreamInit /\ [][StreamNext]_vars /\ WF_vars(HbStep)


(***************************************************************************)
(* Claims about the streaming relay.                                       *)
(***************************************************************************)
\* C3: the heartbeat goroutine and the relay loop are never both inside a
\* write (or flush) to the client connection.
C3_WritesExclusive == ~(InWrite(relayPc) /\ InWrite(hbPc))

\* The payload lines among the writes, in order.
Payload(writes) == SelectSeq(writes, LAMBDA w : w # Heartbeat)

NonBlank(lines) == SelectSeq(lines, LAMBDA l : Len(TrimSpace(l)) # 0)

\* Upstream has ended cleanly and the relay has read all of it, with the
\* client connected and nothing cancelled.
Drained ==
    /\ upstream = "eof"
    /\ inbox = <<>> /\ tail = <<>>
    /\ relayPc \in {"select", "reading"}
    /\ ~ctxDone /\ ~connBroken

\* C4: once upstream has ended and the relay has read all of it, the payload
\* lines written are exactly upstream's non-blank lines, in order, the bytes
\* after the last newline included.
C4_AllLinesRelayed == Drained => Payload(out) = NonBlank(sent)

Closed == relayPc = "returned" /\ hbPc = "stopped"

\* C5: a clean end of the upstream body, with the client connected, leads to
\* Closed.
C5_CleanEndCloses == (upstream = "eof" /\ ~connBroken /\ ~ctxDone) ~> Closed

\* A step in which a goroutine enters w.Write.
StartsWrite ==
    \/ relayPc # "writing" /\ relayPc' = "writing"
    \/ hbPc # "writing" /\ hbPc' = "writing"

\* C6: once the cancellation signal is set, no goroutine starts a write.
C6_NoWriteAfterCancel == [][ctxDone => ~StartsWrite]_vars

\* C7: once the cancellation signal is set (the inbound context cancelled,
\* in particular), the relay loop and the heartbeat goroutine both end.
C7_CancelTerminates == ctxDone ~> Closed

\* The inbound context is cancelled while the relay is blocked reading an
\* upstream that is open and has sent nothing more.
C7_Witness ==
    /\ ctxDone /\ connBroken
    /\ relayPc = "reading"
    /\ upstream = "open" /\ inbox = <<>>
    /\ hbPc # "stopped"

\* C18: once handleStreamingResponse has returned, the heartbeat goroutine
\* has ended: it is not inside a write or flush, and it will not start one.
C18_NoOrphanedHeartbeat == relayPc = "returned" => hbPc = "stopped"

\* A step in which a heartbeat write returns without an error.
HeartbeatWritten == hbPc = "writing" /\ hbPc' = "flushing"

\* C19: whatever upstream and the relay loop do, a tick that comes while
\* the context is not cancelled is taken by the heartbeat goroutine (unless
\* the context is cancelled first), the write it starts returns, and every
\* heartbeat write that returns without an error has put one complete
\* ": heartbeat" line and a blank line on the connection.
C19_HeartbeatLiveness ==
    /\ (tick /\ ~ctxDone) ~> (hbPc = "writing" \/ ctxDone)
    /\ (hbPc = "writing") ~> (hbPc \in {"flushing", "stopped"})
    /\ [][HeartbeatWritten => out' = Append(out, Heartbeat)]_vars


(***************************************************************************)
(* readResponse and the two buffer pools, with NumReaders requests inside  *)
(* handleRegularResponse at once.                                          *)
(*                                                                         *)
(* The body of an upstream reply is Chunks pieces, which io.Copy writes    *)
(* into the buffer one after another.  A bytes.Buffer is a capacity, a     *)
(* backing array and a length; the capacity is "zero" (a new buffer),      *)
(* "small" (below 1024) or "large".  A write that does not fit allocates   *)
(* a new array and leaves the old one as it is.  The slice buf.Bytes()     *)
(* returns is the buffer's array and length at that moment.                *)
(***************************************************************************)
Readers == 1 .. NumReaders

\* The bytes of the upstream reply of request r.
OwnBody(r) == [k \in 1 .. Chunks |-> <<r, k>>]

\* A reply: the size of its body and of resp.ContentLength, each below
\* 1024 ("small") or not; an unknown ContentLength is -1.
ReplyShapes ==
    { [size |-> "small", contentLength |-> "small"],
      [size |-> "large", contentLength |-> "large"],
      [size |-> "large", contentLength |-> "small"] }

\* new(bytes.Buffer)
NewBuffer == [cap |-> "zero", arr |-> 0, len |-> 0]

\* putBuffer: the pool a buffer of this capacity goes back to.
PoolOfCap(cap) == IF cap = "large" THEN "large" ELSE "small"

\* The capacity the k-th piece of a body of this size needs.
Needed(size, k) == IF k = Chunks /\ size = "large" THEN "large" ELSE "small"

Fits(cap, needed) == cap = "large" \/ (cap = "small" /\ needed = "small")

PoolInit ==
    /\ activeConfig = [endpoint |-> deepseekEndpoint,
                       model |-> deepseekChatModel,
                       apiKey |-> deepseekAPIKey]
    /\ pc = "idle"
    /\ req = NoRequest
    /\ body = NoBody
    /\ upstreamCalls = <<>>
    /\ reply = NoReply
    /\ clientResp = [statuses |-> <<>>, body |-> NoBody,
                     headers |-> EmptyObj]
    /\ streamStarted = FALSE
    /\ StreamIdle
    /\ ConvIdle
    /\ pool = [small |-> {}, large |-> {}]
    /\ buffers = <<>>
    /\ arrays = <<>>
    /\ readers \in [Readers ->
          { [pc |-> "start", size |-> sh.size,
             contentLength |-> sh.contentLength, buf |-> 0, held |-> FALSE,
             bytes |-> [arr |-> 0, len |-> 0], parsed |-> <<>>] :
            sh \in ReplyShapes }]

\* getBuffer when sync.Pool.Get hands out a pooled buffer; buf.Reset().
GetPooled(r) ==
    /\ readers[r].pc = "start"
    /\ \E b \in pool[readers[r].contentLength] :
          /\ pool' = [pool EXCEPT ![readers[r].contentLength] = @ \ {b}]
          /\ buffers' = [buffers EXCEPT ![b].len = 0]
          /\ readers' = [readers EXCEPT ![r].pc = "copying",
                                        ![r].buf = b, ![r].held = TRUE]
    /\ UNCHANGED <<arrays, handlerVars, streamVars, convVars>>

\* getBuffer when sync.Pool.Get calls New (it may do so at any time).
GetNew(r) ==
    /\ readers[r].pc = "start"
    /\ buffers' = Append(buffers, NewBuffer)
    /\ readers' = [readers EXCEPT ![r].pc = "copying",
                                  ![r].buf = Len(buffers) + 1,
                                  ![r].held = TRUE]
    /\ UNCHANGED <<pool, arrays, handlerVars, streamVars, convVars>>

\* io.Copy writes the next piece of the body into the buffer.
CopyChunk(r) ==
    /\ readers[r].pc = "copying"
    /\ LET b == readers[r].buf
           k == buffers[b].len + 1
           needed == Needed(readers[r].size, k)
       IN  /\ k <= Chunks
           /\ IF Fits(buffers[b].cap, needed)
              THEN /\ arrays' = [arrays EXCEPT ![buffers[b].arr] =
                                    IF k <= Len(@)
                                    THEN [@ EXCEPT ![k] = <<r, k>>]
                                    ELSE Append(@, <<r, k>>)]
                   /\ buffers' = [buffers EXCEPT ![b].len = k]
              ELSE /\ arrays' = Append(arrays,
                        Append(IF buffers[b].arr = 0 THEN <<>>
                               ELSE SubSeq(arrays[buffers[b].arr], 1, k - 1),
                               <<r, k>>))
                   /\ buffers' = [buffers EXCEPT ![b] =
                                     [cap |-> needed,
                                      arr |-> Len(arrays) + 1,
                                      len |-> k]]
    /\ UNCHANGED <<pool, readers, handlerVars, streamVars, convVars>>

\* io.Copy returns an error: readResponse returns it and the deferred
\* putBuffer runs.
CopyFails(r) ==
    /\ readers[r].pc = "copying"
    /\ pool' = [pool EXCEPT ![PoolOfCap(buffers[readers[r].buf].cap)] =
                   @ \cup {readers[r].buf}]
    /\ readers' = [readers EXCEPT ![r].pc = "failed", ![r].held = FALSE]
    /\ UNCHANGED <<buffers, arrays, handlerVars, streamVars, convVars>>

\* return buf.Bytes(), nil; then the deferred putBuffer(buf).
ReturnBytes(r) ==
    /\ readers[r].pc = "copying"
    /\ buffers[readers[r].buf].len = Chunks
    /\ pool' = [pool EXCEPT ![PoolOfCap(buffers[readers[r].buf].cap)] =
                   @ \cup {readers[r].buf}]
    /\ readers' = [readers EXCEPT
                      ![r].pc = "parsing",
                      ![r].held = FALSE,
                      ![r].bytes = [arr |-> buffers[readers[r].buf].arr,
                                    len |-> buffers[readers[r].buf].len]]
    /\ UNCHANGED <<buffers, arrays, handlerVars, streamVars, convVars>>

\* handleRegularResponse: json.Unmarshal(body, &deepseekResp) reads the
\* slice readResponse returned.
ParseBody(r) ==
    /\ readers[r].pc = "parsing"
    /\ readers' = [readers EXCEPT
                      ![r].pc = "done",
                      ![r].parsed = SubSeq(arrays[readers[r].bytes.arr], 1,
                                           readers[r].bytes.len)]
    /\ UNCHANGED <<pool, buffers, arrays, handlerVars, streamVars, convVars>>

PoolNext ==
    \E r \in Readers :
        \/ GetPooled(r)
        \/ GetNew(r)
        \/ CopyChunk(r)
        \/ CopyFails(r)
        \/ ReturnBytes(r)
        \/ ParseBody(r)

PoolSpec == PoolInit /\ [][PoolNext]_vars

\* The requests that hold buffer b: acquired and not yet released.
Holders(b) == { r \in Readers : readers[r].held /\ readers[r].buf = b }

\* C17: a buffer is held by at most one request at a time, a request that
\* is to read the bytes of its reply still holds the buffer they are in,
\* and the bytes a request has parsed are the bytes of its own reply.
C17_BufferIsolation ==
    /\ \A b \in DOMAIN buffers : Cardinality(Holders(b)) <= 1
    /\ \A r \in Readers : readers[r].pc = "parsing" => readers[r].held
    /\ \A r \in Readers :
          readers[r].pc = "done" => readers[r].parsed = OwnBody(r)


(***************************************************************************)
(* convertMessages on its own, called with any list of up to MaxMessages   *)
(* messages.                                                               *)
(***************************************************************************)
CustomCall(id) ==
    [id |-> id, type |-> "custom",
     function |-> [name |-> "get_weather", arguments |-> "{\"city\":1}"]]

PlainMessage(role, content) ==
    [Role |-> role, Content |-> content, ToolCalls |-> <<>>,
     ToolCallID |-> "", Name |-> ""]

MessagePool ==
    { PlainMessage("user", "hi"),
      PlainMessage("assistant", "ok"),
      [PlainMessage("assistant", "") EXCEPT
          !.ToolCalls = <<CustomCall("call_1")>>],
      [PlainMessage("assistant", "") EXCEPT
          !.ToolCalls = <<[CustomCall("call_2") EXCEPT !.type = ""],
                          [CustomCall("call_3") EXCEPT !.type = "function"]>>],
      [PlainMessage("function", "sunny") EXCEPT !.Name = "get_weather"],
      [PlainMessage("tool", "sunny") EXCEPT !.ToolCallID = "call_1"],
      [PlainMessage("user", "hi") EXCEPT
          !.ToolCalls = <<CustomCall("call_4")>>],
      [PlainMessage("function", "sunny") EXCEPT
          !.Name = "get_weather", !.ToolCalls = <<CustomCall("call_5")>>] }

ConvertInit ==
    /\ activeConfig = [endpoint |-> deepseekEndpoint,
                       model |-> deepseekChatModel,
                       apiKey |-> deepseekAPIKey]
    /\ pc = "idle"
    /\ req = NoRequest
    /\ body = NoBody
    /\ upstreamCalls = <<>>
    /\ reply = NoReply
    /\ clientResp = [statuses |-> <<>>, body |-> NoBody,
                     headers |-> EmptyObj]
    /\ streamStarted = FALSE
    /\ StreamIdle
    /\ PoolIdle
    /\ callerMessages \in SeqsUpTo(MessagePool, MaxMessages)
    /\ given = callerMessages
    /\ converted = <<>>
    /\ convPc = "call"

\* convertMessages(messages): it writes to converted and to the new
\* toolCalls slices only.
ConvertMessages ==
    /\ convPc = "call"
    /\ converted' = convertMessages(callerMessages)
    /\ convPc' = "returned"
    /\ UNCHANGED <<callerMessages, given, handlerVars, streamVars, poolVars>>

ConvertNext == ConvertMessages

ConvertSpec == ConvertInit /\ [][ConvertNext]_vars

\* C20: convertMessages returns a list of the same length and order; a
\* message of role "function" differs from its input in the role alone,
\* which is "tool"; an assistant message with tool calls differs in the
\* type of each tool call alone, which is "function"; every other message
\* is as it was; the caller's list is as it was.
C20_ConvertFrame ==
    convPc = "returned" =>
        /\ callerMessages = given
        /\ Len(converted) = Len(given)
        /\ \A i \in DOMAIN given :
              LET m == given[i]
                  c == converted[i]
              IN  /\ c.Role = IF m.Role = "function" THEN "tool" ELSE m.Role
                  /\ c.Content = m.Content
                  /\ c.ToolCallID = m.ToolCallID
                  /\ c.Name = m.Name
                  /\ Len(c.ToolCalls) = Len(m.ToolCalls)
                  /\ \A j \in DOMAIN m.ToolCalls :
                        /\ c.ToolCalls[j].id = m.ToolCalls[j].id
                        /\ c.ToolCalls[j].function = m.ToolCalls[j].function
                        /\ c.ToolCalls[j].type =
                              IF m.Role = "assistant" THEN "function"
                              ELSE m.ToolCalls[j].type

C20_Witness ==
    /\ convPc = "returned"
    /\ Len(given) = 2
    /\ given[1].Role = "assistant" /\ Len(given[1].ToolCalls) = 2
    /\ given[1].ToolCalls[1].type = ""
    /\ converted[1].ToolCalls[1].type = "function"
    /\ given[2].Role = "function" /\ given[2].Name = "get_weather"
    /\ converted[2].Role = "tool"


(***************************************************************************)
(* The headers of the upstream request on their own: an authenticated,     *)
(* parsed chat request, streaming or not, under each profile, with any     *)
(* combination of the inbound headers below, is about to be forwarded.     *)
(***************************************************************************)

\* The names of the inbound headers drawn from, Authorization apart.
InboundNames ==
    {"Content-Length", "Content-Encoding", "Transfer-Encoding", "Connection",
     "Content-Type", "Accept", "Accept-Language", "X-Title", "Cookie"}

\* The values an inbound header comes with; al is Accept-Language's list.
InboundValues(k, al) ==
    CASE k = "Content-Length" -> <<"42">>
      [] k = "Content-Encoding" -> <<"gzip">>
      [] k = "Transfer-Encoding" -> <<"chunked">>
      [] k = "Connection" -> <<"keep-alive">>
      [] k = "Content-Type" -> <<"text/plain">>
      [] k = "Accept" -> <<"application/json">>
      [] k = "Accept-Language" -> al
      [] k = "X-Title" -> <<"mine">>
      [] OTHER -> <<"a=1", "b=2">>

\* Any of the headers, Accept-Language with one value or with two.
InboundHeaders ==
    { [k \in names |-> InboundValues(k, al)] :
        names \in SUBSET InboundNames, al \in {<<"en">>, <<"en", "fr">>} }

RequestHeaderInit ==
    /\ activeConfig \in Profiles
    /\ pc = "body"
    /\ \E h \in InboundHeaders :
          req = [method |-> "POST",
                 auth |-> <<"Bearer ", activeConfig.apiKey>>,
                 path |-> <<"/v1/", "chat/completions">>,
                 headers |-> h]
    /\ \E st \in BOOLEAN :
          body = Json(ChatRequestJson(gpt4oModel, st, <<>>, <<>>, <<>>, <<>>,
                                      NilValue,
                                      <<[role |-> "user", content |-> "hi"]>>))
    /\ upstreamCalls = <<>>
    /\ reply = NoReply
    /\ clientResp = [statuses |-> <<>>, body |-> NoBody,
                     headers |-> CorsHeaders]
    /\ streamStarted = FALSE
    /\ StreamIdle
    /\ PoolIdle
    /\ ConvIdle

RequestHeaderNext == Forward

RequestHeaderSpec == RequestHeaderInit /\ [][RequestHeaderNext]_vars

\* The inbound headers the claim names: the four that are dropped, the two
\* that are overwritten, and Accept for a streaming request.
NamedHeaders ==
    {"Content-Length", "Content-Encoding", "Transfer-Encoding", "Connection",
     "Authorization", "Content-Type"}
    \cup (IF UnmarshalChatRequest(body.json).Stream THEN {"Accept"} ELSE {})

\* C21: the headers of a forwarded request have none of Content-Length,
\* Content-Encoding, Transfer-Encoding and Connection; Authorization is
\* the single value "Bearer <profile credential>"; Content-Type is the
\* single value application/json; Accept is text/event-stream when the
\* request is streaming; every other inbound header is there with all of
\* its values.
C21_UpstreamHeaders ==
    \A i \in DOMAIN upstreamCalls :
        LET sentHeader == upstreamCalls[i].headers
            inbound == InboundHeader(req)
        IN  /\ DOMAIN sentHeader \cap
                  {"Content-Length", "Content-Encoding", "Transfer-Encoding",
                   "Connection"} = {}
            /\ "Authorization" \in DOMAIN sentHeader
            /\ sentHeader["Authorization"]
                  = << <<"Bearer ", activeConfig.apiKey>> >>
            /\ "Content-Type" \in DOMAIN sentHeader
            /\ sentHeader["Content-Type"] = <<"application/json">>
            /\ UnmarshalChatRequest(body.json).Stream =>
                  /\ "Accept" \in DOMAIN sentHeader
                  /\ sentHeader["Accept"] = <<"text/event-stream">>
            /\ \A k \in DOMAIN inbound \ NamedHeaders :
                  /\ k \in DOMAIN sentHeader
                  /\ sentHeader[k] = inbound[k]


(***************************************************************************)
(* The headers of a forwarded upstream error on their own: upstream has    *)
(* answered a forwarded request with a status >= 400 and any combination   *)
(* of the reply headers below.                                             *)
(***************************************************************************)
ReplyNames ==
    {"Content-Length", "Content-Encoding", "Transfer-Encoding", "Connection",
     "Content-Type", "Retry-After", "Set-Cookie",
     "Access-Control-Allow-Origin"}

ReplyValues(k) ==
    CASE k = "Content-Length" -> <<"27">>
      [] k = "Content-Encoding" -> <<"gzip">>
      [] k = "Transfer-Encoding" -> <<"chunked">>
      [] k = "Connection" -> <<"close">>
      [] k = "Content-Type" -> <<"text/html">>
      [] k = "Retry-After" -> <<"5">>
      [] k = "Set-Cookie" -> <<"a=1", "b=2">>
      [] OTHER -> <<"https://upstream.example">>

ReplyHeaders ==
    { [k \in names |-> ReplyValues(k)] : names \in SUBSET ReplyNames }

ErrorStatuses == { st \in UpstreamStatuses : st >= 400 }

ErrorHeaderInit ==
    /\ activeConfig = [endpoint |-> deepseekEndpoint,
                       model |-> deepseekChatModel,
                       apiKey |-> deepseekAPIKey]
    /\ pc = "replied"
    /\ req = [method |-> "POST", auth |-> <<"Bearer ", deepseekAPIKey>>,
              path |-> <<"/v1/", "chat/completions">>,
              headers |-> SampleRequestHeader]
    /\ \E st \in BOOLEAN :
          body = Json(ChatRequestJson(gpt4oModel, st, <<>>, <<>>, <<>>, <<>>,
                                      NilValue,
                                      <<[role |-> "user", content |-> "hi"]>>))
    /\ upstreamCalls =
          <<[method |-> req.method,
             url |-> <<activeConfig.endpoint>> \o req.path,
             headers |-> UpstreamHeader(activeConfig, req,
                                        UnmarshalChatRequest(body.json)),
             body |-> MarshalDeepSeekRequest(
                          BuildDeepSeekRequest(activeConfig,
                              UnmarshalChatRequest(body.json)))]>>
    /\ reply \in [status : ErrorStatuses,
                  body : {Unreadable, Invalid, Json([error |-> "rate limit"])},
                  headers : ReplyHeaders]
    /\ clientResp = [statuses |-> <<>>, body |-> NoBody,
                     headers |-> CorsHeaders]
    /\ streamStarted = FALSE
    /\ StreamIdle
    /\ PoolIdle
    /\ ConvIdle

ErrorHeaderNext == ForwardError

ErrorHeaderSpec == ErrorHeaderInit /\ [][ErrorHeaderNext]_vars

\* C22: when an upstream reply with status >= 400 has been forwarded, the
\* client response has every upstream header but Content-Length,
\* Content-Encoding, Transfer-Encoding and Connection, with its values,
\* and has none of the upstream values of those four.
C22_ErrorHeadersFiltered ==
    (UpstreamErrorHandled /\ reply.body.kind # "unreadable") =>
        LET dropped == {"Content-Length", "Content-Encoding",
                        "Transfer-Encoding", "Connection"}
        IN  /\ \A k \in DOMAIN reply.headers \ dropped :
                  /\ k \in DOMAIN clientResp.headers
                  /\ clientResp.headers[k] = reply.headers[k]
            /\ \A k \in DOMAIN reply.headers \cap dropped :
                  \/ k \notin DOMAIN clientResp.headers
                  \/ clientResp.headers[k] # reply.headers[k]


====
